---- MODULE Spec2Model ----
(***************************************************************************)
(* Model of mi-scale/src/Xiaomi_Scale_Body_Metrics.py: class BodyMetrics.  *)
(*                                                                         *)
(* Python floats are modelled as exact rationals <<n, d>> (d > 0, lowest   *)
(* terms).  Every formula of the class is evaluated with the same          *)
(* operations in the same order as the source; only the binary rounding of *)
(* each float operation is abstracted, so round() of a value lying exactly *)
(* halfway between two decimals goes to the even one here, where the float *)
(* nearest to that value may fall on either side.  The fields are sampled  *)
(* at integers.  A raised exception is the record [exc |-> ...], a         *)
(* returned value is [val |-> ...].                                        *)
(***************************************************************************)
EXTENDS Integers, Sequences, FiniteSets, TLC

VARIABLES args, self, error, last, firstAll

vars == <<args, self, error, last, firstAll>>

(* Number of callers sharing one instance. *)
NumCallers == 2

Callers == 1..NumCallers

(* Sampled constructor arguments: each documented bound, its neighbours    *)
(* outside the range, and interior values.                                 *)
Weights == {9, 10, 70, 200, 201}

Heights == {49, 50, 52, 170, 220, 221}

Ages == {0, 1, 30, 86, 99, 100}

Sexes == {"male", "female"}

Impedances == {-1000, -1, 0, 450, 3000, 3001}

NoArgs == [none |-> TRUE]

NoObject == [none |-> TRUE]

NoCall == [none |-> TRUE]

NoResult == [none |-> TRUE]

NoError == [none |-> TRUE]

(* ---------------- exact arithmetic standing for float ------------------ *)

RECURSIVE Gcd(_, _)
Gcd(a, b) == IF b = 0 THEN a ELSE Gcd(b, a % b)

AbsInt(a) == IF a < 0 THEN -a ELSE a

(* n/d with the common factor g > 0 divided out and the sign moved to the  *)
(* numerator.                                                              *)
Reduce(n, d, g) ==
  IF d < 0 THEN <<(-n) \div g, (-d) \div g>> ELSE <<n \div g, d \div g>>

(* The rational n/d in lowest terms with a positive denominator. *)
Q(n, d) == Reduce(n, d, Gcd(AbsInt(n), AbsInt(d)))

Num(n) == <<n, 1>>

AddOver(x, y, g) ==
  Q(x[1] * (y[2] \div g) + y[1] * (x[2] \div g), (x[2] \div g) * y[2])

Add(x, y) == AddOver(x, y, Gcd(x[2], y[2]))

Neg(x) == <<-x[1], x[2]>>

Sub(x, y) == Add(x, Neg(y))

MulReduced(a, b) == <<a[1] * b[1], a[2] * b[2]>>

Mul(x, y) == MulReduced(Q(x[1], y[2]), Q(y[1], x[2]))

(* x / y for y # 0; the callers test y = 0 where Python would raise. *)
Div(x, y) == Mul(x, Q(y[2], y[1]))

LessOver(x, y, g) == x[1] * (y[2] \div g) < y[1] * (x[2] \div g)

Less(x, y) == LessOver(x, y, Gcd(x[2], y[2]))

Greater(x, y) == Less(y, x)

IsZero(x) == x[1] = 0

(* Python's builtin max(a, b): b only if b > a. *)
Max(a, b) == IF Greater(b, a) THEN b ELSE a

(* Python's builtin min(a, b): b only if b < a. *)
Min(a, b) == IF Less(b, a) THEN b ELSE a

Abs(x) == <<AbsInt(x[1]), x[2]>>

(* The integer nearest to q + r/d (0 <= r < d), ties to the even one. *)
Nearest(q, r, d) ==
  IF 2 * r < d THEN q
  ELSE IF 2 * r > d THEN q + 1
  ELSE IF q % 2 = 0 THEN q ELSE q + 1

RoundScaled(y, scale) == Q(Nearest(y[1] \div y[2], y[1] % y[2], y[2]), scale)

(* Python's round(x, ndigits) with scale = 10^ndigits: the nearest multiple *)
(* of 1/scale, ties to the even one.                                       *)
Round(x, scale) == RoundScaled(Mul(x, Num(scale)), scale)

(* ------------------------------ the class ------------------------------ *)

(* Validate with the upper bounds taken as exclusive. *)
Validate_exclusive(weight, height, age, impedance) ==
  IF ~(50 <= height /\ height < 220)
    THEN [exc |-> "ValueError", field |-> "height"]
  ELSE IF ~(10 <= weight /\ weight < 200)
    THEN [exc |-> "ValueError", field |-> "weight"]
  ELSE IF ~(1 <= age /\ age < 99)
    THEN [exc |-> "ValueError", field |-> "age"]
  ELSE IF impedance >= 3000
    THEN [exc |-> "ValueError", field |-> "impedance"]
  ELSE NoError

(* __init__'s validation: the exception raised, or NoError. *)
Validate(weight, height, age, impedance) ==
  IF ~(50 <= height /\ height <= 220)
    THEN [exc |-> "ValueError", field |-> "height"]
  ELSE IF ~(10 <= weight /\ weight <= 200)
    THEN [exc |-> "ValueError", field |-> "weight"]
  ELSE IF ~(1 <= age /\ age <= 99)
    THEN [exc |-> "ValueError", field |-> "age"]
  ELSE IF impedance > 3000
    THEN [exc |-> "ValueError", field |-> "impedance"]
  ELSE NoError

(* check_value_overflow with min and max exchanged. *)
check_value_overflow_swapped(value, minimum, maximum) ==
  Max(Min(value, minimum), maximum)

check_value_overflow(value, minimum, maximum) ==
  Min(Max(value, minimum), maximum)

(* The instances the constructor can return for the sampled arguments. *)
Instances ==
  {s \in [weight : Weights, height : Heights, age : Ages, sex : Sexes,
          impedance : Impedances] :
     Validate(s.weight, s.height, s.age, s.impedance) = NoError}

(* An accessor is a pure function of the instance: each one is evaluated   *)
(* once per instance and kept as an explicit table, so that an accessor    *)
(* called from another accessor is a lookup.                               *)
Table(f) == f @@ <<>>

lbm_raw(s) ==
  IF s.sex = "female"
    THEN Sub(Sub(Add(Add(Mul(Q(14, 100), Num(s.impedance)),
                         Mul(Q(34, 100), Num(s.height))),
                     Mul(Q(33, 100), Num(s.weight))),
                 Mul(Q(16, 100), Num(s.age))),
             Q(668, 100))
    ELSE Sub(Sub(Add(Add(Mul(Q(24, 100), Num(s.impedance)),
                         Mul(Q(41, 100), Num(s.height))),
                     Mul(Q(34, 100), Num(s.weight))),
                 Mul(Q(16, 100), Num(s.age))),
             Q(1068, 100))

get_lbm_coefficient ==
  Table([s \in Instances |->
    check_value_overflow(lbm_raw(s), Num(10), Num(120))])

bmr_raw(s) ==
  Add(Sub(Add(Mul(Num(10), Num(s.weight)), Mul(Q(625, 100), Num(s.height))),
          Mul(Num(5), Num(s.age))),
      IF s.sex = "male" THEN Num(5) ELSE Num(-161))

get_bmr ==
  Table([s \in Instances |->
    check_value_overflow(bmr_raw(s), Num(500), Num(3000))])

(* height_m = self.height / 100 *)
height_m(s) == Div(Num(s.height), Num(100))

bmi_raw(s) == Div(Num(s.weight), Mul(height_m(s), height_m(s)))

get_bmi ==
  Table([s \in Instances |->
    check_value_overflow(bmi_raw(s), Num(10), Num(90))])

(* fat before the impedance adjustment, from bmi = get_bmi() *)
fat_bmi_age(s, bmi) ==
  IF s.sex = "female"
    THEN Sub(Sub(Add(Mul(Q(120, 100), bmi), Mul(Q(23, 100), Num(s.age))),
                 Q(54, 10)),
             Q(108, 10))
    ELSE Sub(Add(Mul(Q(120, 100), bmi), Mul(Q(23, 100), Num(s.age))),
             Q(162, 10))

(* fat_impedance, from lbm = get_lbm_coefficient() *)
fat_impedance(s, lbm) ==
  Mul(Div(Sub(Num(s.weight), lbm), Num(s.weight)), Num(100))

(* fat_raw averaging the two estimates from impedance 0 on. *)
fat_raw_from_zero(s) ==
  IF s.impedance >= 0
    THEN Div(Add(fat_bmi_age(s, get_bmi[s]),
                 fat_impedance(s, get_lbm_coefficient[s])),
             Num(2))
    ELSE fat_bmi_age(s, get_bmi[s])

fat_raw(s) ==
  IF s.impedance > 0
    THEN Div(Add(fat_bmi_age(s, get_bmi[s]),
                 fat_impedance(s, get_lbm_coefficient[s])),
             Num(2))
    ELSE fat_bmi_age(s, get_bmi[s])

get_fat_percentage ==
  Table([s \in Instances |->
    check_value_overflow(fat_raw(s), Num(3), Num(60))])

water_raw(s) ==
  Mul(Div(Mul(get_lbm_coefficient[s], Q(73, 100)), Num(s.weight)), Num(100))

get_water_percentage ==
  Table([s \in Instances |->
    check_value_overflow(water_raw(s), Num(35), Num(75))])

bone_raw(s) ==
  IF s.sex = "female"
    THEN Mul(Num(s.weight), Q(144, 1000))
    ELSE Mul(Num(s.weight), Q(154, 1000))

get_bone_mass ==
  Table([s \in Instances |->
    check_value_overflow(bone_raw(s), Num(1), Num(4))])

lean_raw(s) ==
  Sub(Num(s.weight),
      Mul(Num(s.weight), Div(get_fat_percentage[s], Num(100))))

get_lean_mass ==
  Table([s \in Instances |->
    check_value_overflow(lean_raw(s), Num(10), Num(120))])

muscle_raw(s) ==
  Sub(Sub(get_lean_mass[s],
          Mul(Div(get_water_percentage[s], Num(100)), Num(s.weight))),
      get_bone_mass[s])

get_muscle_mass ==
  Table([s \in Instances |->
    IF s.sex = "female"
      THEN check_value_overflow(muscle_raw(s), Num(15), Num(45))
      ELSE check_value_overflow(muscle_raw(s), Num(25), Num(55))])

(* waist = self.height * 0.5 * (self.get_bmi() / 25) *)
waist(s) == Mul(Mul(Num(s.height), Q(5, 10)), Div(get_bmi[s], Num(25)))

vfal_raw(s) ==
  Add(IF s.sex = "female"
        THEN Add(Sub(Mul(waist(s), Q(47, 100)), Mul(Num(s.age), Q(13, 100))),
                 Q(25, 10))
        ELSE Add(Sub(Mul(waist(s), Q(58, 100)), Mul(Num(s.age), Q(15, 100))),
                 Num(3)),
      Mul(Sub(get_fat_percentage[s], Num(20)), Q(2, 10)))

get_visceral_fat ==
  Table([s \in Instances |->
    check_value_overflow(vfal_raw(s), Num(1), Num(50))])

ideal_raw(s) == Mul(Num(22), Mul(height_m(s), height_m(s)))

get_ideal_weight ==
  Table([s \in Instances |->
    check_value_overflow(ideal_raw(s), Num(10), Num(120))])

(* fat_mass_result without abs() in the to_gain branch. *)
fat_mass_result_signed(diff) ==
  IF Greater(diff, Num(0))
    THEN [type |-> "to_lose", mass |-> Round(diff, 100)]
    ELSE [type |-> "to_gain", mass |-> Round(diff, 100)]

(* diff = current_fat_mass - target_fat_mass *)
fat_mass_diff(s) ==
  Sub(Mul(Num(s.weight), Div(get_fat_percentage[s], Num(100))),
      Mul(get_ideal_weight[s],
          Div(Num(IF s.sex = "male" THEN 15 ELSE 22), Num(100))))

(* the result of get_fat_mass_to_ideal for diff *)
fat_mass_result(diff) ==
  IF Greater(diff, Num(0))
    THEN [type |-> "to_lose", mass |-> Round(diff, 100)]
    ELSE [type |-> "to_gain", mass |-> Round(Abs(diff), 100)]

get_fat_mass_to_ideal ==
  Table([s \in Instances |-> fat_mass_result(fat_mass_diff(s))])

protein_raw(s) ==
  Mul(Div(Mul(get_muscle_mass[s], Q(19, 100)), Num(s.weight)), Num(100))

get_protein_percentage ==
  Table([s \in Instances |->
    check_value_overflow(protein_raw(s), Num(5), Num(32))])

(* factor with the values of the two outer fat bands exchanged. *)
fat_factor_exchanged(s, fat_pct) ==
  IF Greater(fat_pct, Num(IF s.sex = "female" THEN 28 ELSE 20)) THEN 2
  ELSE IF Less(fat_pct, Num(IF s.sex = "female" THEN 18 ELSE 10)) THEN 0
  ELSE 1

(* factor, from fat_pct = get_fat_percentage() *)
fat_factor(s, fat_pct) ==
  IF Greater(fat_pct, Num(IF s.sex = "female" THEN 28 ELSE 20)) THEN 0
  ELSE IF Less(fat_pct, Num(IF s.sex = "female" THEN 18 ELSE 10)) THEN 2
  ELSE 1

(* the category returned for factor and muscle_mass = get_muscle_mass() *)
body_type_of(s, factor, muscle_mass) ==
  IF Greater(muscle_mass, Num(IF s.sex = "female" THEN 35 ELSE 45))
    THEN 2 + (factor * 3)
  ELSE IF Less(muscle_mass, Num(IF s.sex = "female" THEN 20 ELSE 30))
    THEN factor * 3
  ELSE 1 + (factor * 3)

get_body_type ==
  Table([s \in Instances |->
    body_type_of(s, fat_factor(s, get_fat_percentage[s]), get_muscle_mass[s])])

expected_bmr(s) ==
  IF s.sex = "female"
    THEN Sub(Sub(Add(Mul(Num(10), Num(s.weight)),
                     Mul(Q(625, 100), Num(s.height))),
                 Mul(Num(5), Num(s.age))),
             Num(161))
    ELSE Add(Sub(Add(Mul(Num(10), Num(s.weight)),
                     Mul(Q(625, 100), Num(s.height))),
                 Mul(Num(5), Num(s.age))),
             Num(5))

(* metabolic_age without the "if ratio > 0 else self.age" guard. *)
metabolic_age_of_unguarded(s, ratio) == Div(Num(s.age), ratio)

(* metabolic_age = self.age / ratio if ratio > 0 else self.age *)
metabolic_age_of(s, ratio) ==
  IF Greater(ratio, Num(0)) THEN Div(Num(s.age), ratio) ELSE Num(s.age)

(* bmr / expected_bmr raises when the divisor is zero; otherwise the value *)
(* that get_metabolic_age hands to the clamp.                              *)
metabolic_age_raw(s) ==
  IF IsZero(expected_bmr(s))
    THEN [exc |-> "ZeroDivisionError"]
    ELSE [val |-> metabolic_age_of(s, Div(get_bmr[s], expected_bmr(s)))]

(* The clamp applied to what was computed, unless that raised. *)
clamped(r, minimum, maximum) ==
  IF "exc" \in DOMAIN r
    THEN r
    ELSE [val |-> check_value_overflow(r.val, minimum, maximum)]

get_metabolic_age ==
  Table([s \in Instances |-> clamped(metabolic_age_raw(s), Num(15), Num(80))])

(* The mapping built by get_all_metrics once get_metabolic_age returned ma. *)
all_metrics_with(s, ma) ==
  [bmi |-> Round(get_bmi[s], 10),
   body_fat_pct |-> Round(get_fat_percentage[s], 10),
   water_pct |-> Round(get_water_percentage[s], 10),
   bone_mass |-> Round(get_bone_mass[s], 100),
   muscle_mass |-> Round(get_muscle_mass[s], 100),
   lbm |-> Round(get_lean_mass[s], 100),
   bmr |-> Round(get_bmr[s], 1),
   visceral_fat |-> Round(get_visceral_fat[s], 10),
   ideal_weight |-> Round(get_ideal_weight[s], 10),
   metabolic_age |-> Round(ma, 1),
   protein_pct |-> Round(get_protein_percentage[s], 10),
   body_type |-> get_body_type[s]]

(* The outcome of building the mapping: the exception of the accessor that *)
(* raised, or the mapping.                                                 *)
all_metrics_outcome(s, r) ==
  IF "exc" \in DOMAIN r THEN r ELSE [val |-> all_metrics_with(s, r.val)]

get_all_metrics ==
  Table([s \in Instances |-> all_metrics_outcome(s, get_metabolic_age[s])])

(* ------------------------------ behaviour ------------------------------ *)

Init ==
  /\ args = NoArgs
  /\ self = NoObject
  /\ error = NoError
  /\ last = NoCall
  /\ firstAll = NoResult

(* BodyMetrics(weight, height, age, sex, impedance) *)
Construct ==
  /\ args = NoArgs
  /\ \E weight \in Weights, height \in Heights, age \in Ages,
        sex \in Sexes, impedance \in Impedances :
       /\ args' = [weight |-> weight, height |-> height, age |-> age,
                   sex |-> sex, impedance |-> impedance]
       /\ error' = Validate(weight, height, age, impedance)
       /\ self' = IF error' = NoError THEN args' ELSE NoObject
  /\ UNCHANGED <<last, firstAll>>

(* Caller c receives outcome r from accessor op; the fields are only read. *)
Return(c, op, r) ==
  /\ self # NoObject
  /\ last' = [caller |-> c, op |-> op, out |-> r]
  /\ UNCHANGED <<args, self, error>>

Call_get_lbm_coefficient ==
  \E c \in Callers :
    /\ Return(c, "get_lbm_coefficient", [val |-> get_lbm_coefficient[self]])
    /\ UNCHANGED firstAll

Call_get_bmr ==
  \E c \in Callers :
    /\ Return(c, "get_bmr", [val |-> get_bmr[self]])
    /\ UNCHANGED firstAll

(* Call_get_fat_percentage normalising a non-positive impedance in place. *)
Call_get_fat_percentage_storing ==
  \E c \in Callers :
    /\ self # NoObject
    /\ last' = [caller |-> c, op |-> "get_fat_percentage",
                out |-> [val |-> get_fat_percentage[self]]]
    /\ self' = [self EXCEPT !.impedance = IF @ > 0 THEN @ ELSE 0]
    /\ UNCHANGED <<args, error, firstAll>>

Call_get_fat_percentage ==
  \E c \in Callers :
    /\ Return(c, "get_fat_percentage", [val |-> get_fat_percentage[self]])
    /\ UNCHANGED firstAll

Call_get_water_percentage ==
  \E c \in Callers :
    /\ Return(c, "get_water_percentage", [val |-> get_water_percentage[self]])
    /\ UNCHANGED firstAll

Call_get_bone_mass ==
  \E c \in Callers :
    /\ Return(c, "get_bone_mass", [val |-> get_bone_mass[self]])
    /\ UNCHANGED firstAll

Call_get_lean_mass ==
  \E c \in Callers :
    /\ Return(c, "get_lean_mass", [val |-> get_lean_mass[self]])
    /\ UNCHANGED firstAll

Call_get_muscle_mass ==
  \E c \in Callers :
    /\ Return(c, "get_muscle_mass", [val |-> get_muscle_mass[self]])
    /\ UNCHANGED firstAll

Call_get_visceral_fat ==
  \E c \in Callers :
    /\ Return(c, "get_visceral_fat", [val |-> get_visceral_fat[self]])
    /\ UNCHANGED firstAll

Call_get_bmi ==
  \E c \in Callers :
    /\ Return(c, "get_bmi", [val |-> get_bmi[self]])
    /\ UNCHANGED firstAll

Call_get_ideal_weight ==
  \E c \in Callers :
    /\ Return(c, "get_ideal_weight", [val |-> get_ideal_weight[self]])
    /\ UNCHANGED firstAll

Call_get_fat_mass_to_ideal ==
  \E c \in Callers :
    /\ Return(c, "get_fat_mass_to_ideal", [val |-> get_fat_mass_to_ideal[self]])
    /\ UNCHANGED firstAll

Call_get_protein_percentage ==
  \E c \in Callers :
    /\ Return(c, "get_protein_percentage",
              [val |-> get_protein_percentage[self]])
    /\ UNCHANGED firstAll

Call_get_body_type ==
  \E c \in Callers :
    /\ Return(c, "get_body_type", [val |-> get_body_type[self]])
    /\ UNCHANGED firstAll

Call_get_metabolic_age ==
  \E c \in Callers :
    /\ Return(c, "get_metabolic_age", get_metabolic_age[self])
    /\ UNCHANGED firstAll

(* firstAll records the first get_all_metrics call and its outcome. *)
Call_get_all_metrics ==
  \E c \in Callers :
    /\ Return(c, "get_all_metrics", get_all_metrics[self])
    /\ firstAll' = IF firstAll = NoResult
                     THEN [caller |-> c, out |-> get_all_metrics[self]]
                     ELSE firstAll

Next ==
  \/ Construct
  \/ Call_get_lbm_coefficient
  \/ Call_get_bmr
  \/ Call_get_fat_percentage
  \/ Call_get_water_percentage
  \/ Call_get_bone_mass
  \/ Call_get_lean_mass
  \/ Call_get_muscle_mass
  \/ Call_get_visceral_fat
  \/ Call_get_bmi
  \/ Call_get_ideal_weight
  \/ Call_get_fat_mass_to_ideal
  \/ Call_get_protein_percentage
  \/ Call_get_body_type
  \/ Call_get_metabolic_age
  \/ Call_get_all_metrics

Spec == Init /\ [][Next]_vars

(* ------------------------------- claims -------------------------------- *)

Called(op) == last # NoCall /\ last.op = op

(* The outcome is a value v with lo <= v <= hi. *)
InRange(out, lo, hi) ==
  /\ "val" \in DOMAIN out
  /\ ~Less(out.val, Num(lo))
  /\ ~Greater(out.val, Num(hi))

(* The clamp rule as the specification words it. *)
ClampRule(v, lo, hi) ==
  IF Less(v, Num(lo)) THEN Num(lo)
  ELSE IF Greater(v, Num(hi)) THEN Num(hi)
  ELSE v

(* C1: every numeric accessor returns a value inside its documented clamp  *)
(* range, for every instance the constructor accepts.                      *)
C1_AccessorsInClampRange ==
  /\ Called("get_lbm_coefficient") => InRange(last.out, 10, 120)
  /\ Called("get_bmr") => InRange(last.out, 500, 3000)
  /\ Called("get_fat_percentage") => InRange(last.out, 3, 60)
  /\ Called("get_water_percentage") => InRange(last.out, 35, 75)
  /\ Called("get_bone_mass") => InRange(last.out, 1, 4)
  /\ Called("get_lean_mass") => InRange(last.out, 10, 120)
  /\ Called("get_muscle_mass") =>
       IF self.sex = "female" THEN InRange(last.out, 15, 45)
                              ELSE InRange(last.out, 25, 55)
  /\ Called("get_visceral_fat") => InRange(last.out, 1, 50)
  /\ Called("get_bmi") => InRange(last.out, 10, 90)
  /\ Called("get_ideal_weight") => InRange(last.out, 10, 120)
  /\ Called("get_protein_percentage") => InRange(last.out, 5, 32)
  /\ Called("get_metabolic_age") => InRange(last.out, 15, 80)

(* C2: every accessor call on a constructed instance produces a value and  *)
(* never raises.                                                           *)
C2_AccessorsNeverRaise == last # NoCall => "val" \in DOMAIN last.out

OutsideCheckedRange(a) ==
  \/ a.height < 50 \/ a.height > 220
  \/ a.weight < 10 \/ a.weight > 200
  \/ a.age < 1 \/ a.age > 99
  \/ a.impedance > 3000

(* C3: construction fails exactly when height is outside [50,220], weight  *)
(* outside [10,200], age outside [1,99] or impedance > 3000 (bounds        *)
(* inclusive); a failure is a ValueError raised to the caller and yields   *)
(* no instance, a success yields the instance holding the arguments.       *)
C3_ConstructionFailsIffOutOfRange ==
  args # NoArgs =>
    /\ (error # NoError) <=> OutsideCheckedRange(args)
    /\ error # NoError => (error.exc = "ValueError" /\ self = NoObject)
    /\ error = NoError => self = args

C3_BoundsAccepted ==
  /\ args # NoArgs
  /\ args.weight = 200 /\ args.height = 220 /\ args.age = 99
  /\ args.impedance = 3000
  /\ error = NoError
  /\ self = args

(* C4: construction rejects every input with a field outside its           *)
(* documented range, the documented impedance range being 0-3000: a        *)
(* negative impedance fails with a validation error.                       *)
C4_NegativeImpedanceRejected ==
  (args # NoArgs /\ (OutsideCheckedRange(args) \/ args.impedance < 0)) =>
    (error # NoError /\ self = NoObject)

CurrentFatMass(s) ==
  Mul(Num(s.weight), Div(get_fat_percentage[s], Num(100)))

TargetFatMass(s) ==
  Mul(get_ideal_weight[s], Q(IF s.sex = "male" THEN 15 ELSE 22, 100))

FatGap(s) == Abs(Sub(CurrentFatMass(s), TargetFatMass(s)))

FatDirection(s) ==
  IF Greater(CurrentFatMass(s), TargetFatMass(s)) THEN "to_lose" ELSE "to_gain"

(* C5 as stated: the type is to_lose exactly when the current fat mass     *)
(* exceeds the target, and the returned mass is |current - target|.        *)
C5_MassIsExactGap ==
  Called("get_fat_mass_to_ideal") =>
    /\ last.out.val.type = FatDirection(self)
    /\ last.out.val.mass = FatGap(self)
    /\ ~Less(last.out.val.mass, Num(0))

(* C5 amended: the type is to_lose exactly when the current fat mass       *)
(* exceeds the target and to_gain otherwise; the returned mass is          *)
(* |current - target| rounded to two decimals: a non-negative multiple of  *)
(* 0.01 within 0.005 of |current - target|.                                *)
C5_MassIsRoundedGap ==
  Called("get_fat_mass_to_ideal") =>
    /\ last.out.val.type = FatDirection(self)
    /\ 100 % last.out.val.mass[2] = 0
    /\ ~Greater(Abs(Sub(last.out.val.mass, FatGap(self))), Q(1, 200))
    /\ ~Less(last.out.val.mass, Num(0))

C5_RoundedToGain ==
  /\ Called("get_fat_mass_to_ideal")
  /\ last.out.val.type = "to_gain"
  /\ last.out.val.mass # FatGap(self)
  /\ Greater(last.out.val.mass, Num(0))

FatBand(s) ==
  IF Greater(get_fat_percentage[s], Num(IF s.sex = "female" THEN 28 ELSE 20))
    THEN 0
  ELSE IF Less(get_fat_percentage[s], Num(IF s.sex = "female" THEN 18 ELSE 10))
    THEN 2
  ELSE 1

MuscleBand(s) ==
  IF Greater(get_muscle_mass[s], Num(IF s.sex = "female" THEN 35 ELSE 45))
    THEN 2
  ELSE IF Less(get_muscle_mass[s], Num(IF s.sex = "female" THEN 20 ELSE 30))
    THEN 0
  ELSE 1

C7_AccessorsReadOnly ==
  [][self # NoObject =>
       /\ self' = self
       /\ (last' # NoCall /\ last'.op = "get_all_metrics") =>
            last'.out = firstAll'.out]_vars

C7_SecondCallerSameMapping ==
  /\ Called("get_all_metrics")
  /\ firstAll # NoResult
  /\ last.caller # firstAll.caller
  /\ "val" \in DOMAIN last.out
  /\ last.out = firstAll.out

(* C8: get_bmr is 500 when the raw Mifflin-St Jeor value is below 500,     *)
(* 3000 when it is above 3000 and the raw value otherwise; every clamped   *)
(* accessor applies the same rule to its own raw value and range.          *)
C8_ClampRuleEverywhere ==
  /\ Called("get_bmr") =>
       last.out.val = ClampRule(bmr_raw(self), 500, 3000)
  /\ Called("get_lbm_coefficient") =>
       last.out.val = ClampRule(lbm_raw(self), 10, 120)
  /\ Called("get_fat_percentage") =>
       last.out.val = ClampRule(fat_raw(self), 3, 60)
  /\ Called("get_water_percentage") =>
       last.out.val = ClampRule(water_raw(self), 35, 75)
  /\ Called("get_bone_mass") =>
       last.out.val = ClampRule(bone_raw(self), 1, 4)
  /\ Called("get_lean_mass") =>
       last.out.val = ClampRule(lean_raw(self), 10, 120)
  /\ Called("get_muscle_mass") =>
       last.out.val = IF self.sex = "female"
                        THEN ClampRule(muscle_raw(self), 15, 45)
                        ELSE ClampRule(muscle_raw(self), 25, 55)
  /\ Called("get_visceral_fat") =>
       last.out.val = ClampRule(vfal_raw(self), 1, 50)
  /\ Called("get_bmi") =>
       last.out.val = ClampRule(bmi_raw(self), 10, 90)
  /\ Called("get_ideal_weight") =>
       last.out.val = ClampRule(ideal_raw(self), 10, 120)
  /\ Called("get_protein_percentage") =>
       last.out.val = ClampRule(protein_raw(self), 5, 32)
  /\ (Called("get_metabolic_age") /\ "val" \in DOMAIN last.out) =>
       last.out.val = ClampRule(metabolic_age_raw(self).val, 15, 80)

C8_BmrClampedLow ==
  /\ Called("get_bmr")
  /\ Less(bmr_raw(self), Num(500))
  /\ last.out.val = Num(500)

BmiAgeEstimate(s) ==
  Sub(Add(Mul(Q(120, 100), get_bmi[s]), Mul(Q(23, 100), Num(s.age))),
      Q(162, 10))

ImpedanceEstimate(s) ==
  Mul(Div(Sub(Num(s.weight), get_lbm_coefficient[s]), Num(s.weight)),
      Num(100))

(* C9: get_fat_percentage averages the BMI-and-age estimate with the       *)
(* impedance-derived estimate only when impedance > 0; with impedance <= 0 *)
(* it is the clamp to [3,60] of the BMI-and-age estimate alone             *)
(* (1.20*bmi + 0.23*age - 16.2 for both sexes) whatever the impedance.     *)
C9_FatAveragedOnlyAboveZero ==
  Called("get_fat_percentage") =>
    IF self.impedance > 0
      THEN last.out.val =
             ClampRule(Div(Add(BmiAgeEstimate(self), ImpedanceEstimate(self)),
                           Num(2)), 3, 60)
      ELSE /\ last.out.val = ClampRule(BmiAgeEstimate(self), 3, 60)
           /\ \A i \in {j \in Impedances : j <= 0} :
                get_fat_percentage[[self EXCEPT !.impedance = i]] = last.out.val

C9_ZeroImpedanceUnclamped ==
  /\ Called("get_fat_percentage")
  /\ self.impedance = 0
  /\ last.out.val = BmiAgeEstimate(self)
  /\ last.out.val # ClampRule(ImpedanceEstimate(self), 3, 60)

(* C10: when the raw BMR lies in [500,3000], get_metabolic_age returns the *)
(* chronological age clamped to [15,80]; it returns anything else only     *)
(* when get_bmr was clamped; and when the expected BMR is negative it      *)
(* returns the clamped age as well.                                        *)
C10_MetabolicAgeIsClampedAge ==
  Called("get_metabolic_age") =>
    /\ (~Less(bmr_raw(self), Num(500)) /\ ~Greater(bmr_raw(self), Num(3000)))
         => last.out = [val |-> ClampRule(Num(self.age), 15, 80)]
    /\ last.out # [val |-> ClampRule(Num(self.age), 15, 80)]
         => get_bmr[self] # bmr_raw(self)
    /\ Less(expected_bmr(self), Num(0))
         => last.out = [val |-> ClampRule(Num(self.age), 15, 80)]

C10_UnclampedBmrGivesAge ==
  /\ Called("get_metabolic_age")
  /\ get_bmr[self] = bmr_raw(self)
  /\ self.age = 30
  /\ last.out = [val |-> Num(30)]

====
